---------------------------- MODULE Spec2Model ----------------------------
(***************************************************************************)
(* Model of the pilsen25 front end: Landing wires a TeamPicker, an         *)
(* ActivationCanvas (seeded weight generation, forward pass, staged        *)
(* animation with timers) and a winner card.                               *)
(*                                                                         *)
(* Number representation.                                                  *)
(*  - A 32-bit word is a pair <<hi, lo>> of 16-bit halves, so that the     *)
(*    integer operations of mulberry32 (xor, or, >>>, Math.imul, wrapping  *)
(*    addition) are computed exactly.  The closure variable `seed` of      *)
(*    mulberry32 is a JS double that is never truncated; it is kept as     *)
(*    <<hi, lo>> with lo < 2^16 and hi unbounded.                          *)
(*  - A JS double that holds a real quantity (weights, biases,             *)
(*    activations, sigmoid scores) is a fixed-point integer with ONE       *)
(*    standing for 1.0.  tanh and sigmoid are monotone, saturating         *)
(*    fixed-point functions (table plus linear interpolation), so, as in   *)
(*    IEEE arithmetic, distinct arguments can give equal results.          *)
(***************************************************************************)
EXTENDS Integers, Sequences, FiniteSets, TLC

(***************************************************************************)
(* 16-bit and 32-bit integer arithmetic                                    *)
(***************************************************************************)
H == 65536

\* a ^ b on non-negative integers, bit by bit from the lowest bit
RECURSIVE BitXor(_, _)
BitXor(a, b) ==
    IF a = 0 THEN b
    ELSE IF b = 0 THEN a
    ELSE ((a + b) % 2) + 2 * BitXor(a \div 2, b \div 2)

\* a | b on non-negative integers, bit by bit from the lowest bit
RECURSIVE BitOr(_, _)
BitOr(a, b) ==
    IF a = 0 THEN b
    ELSE IF b = 0 THEN a
    ELSE (IF a % 2 = 1 \/ b % 2 = 1 THEN 1 ELSE 0) + 2 * BitOr(a \div 2, b \div 2)

\* t ^ u on 32-bit words
Xor32(t, u) == <<BitXor(t[1], u[1]), BitXor(t[2], u[2])>>

\* t | c for a constant c < 2^16
OrLow32(t, c) == <<t[1], BitOr(t[2], c)>>

\* t >>> k for 0 < k < 16, on a 32-bit word
Shr32(t, k) ==
    <<t[1] \div (2 ^ k),
      (t[1] % (2 ^ k)) * (2 ^ (16 - k)) + (t[2] \div (2 ^ k))>>

\* (a + b) mod 2^32
Add32(a, b) ==
    LET lo == a[2] + b[2]
    IN  <<(a[1] + b[1] + (lo \div H)) % H, lo % H>>

\* the 32-bit product of two 16-bit halves, as a word (by bytes: no
\* intermediate value exceeds 2^25)
Mul16(a, b) ==
    LET p0 == (a % 256) * b
        p1 == (a \div 256) * b
        lo == (p1 % 256) * 256 + (p0 % H)
    IN  <<((p1 \div 256) + (p0 \div H) + (lo \div H)) % H, lo % H>>

\* Math.imul(a, b): the low 32 bits of the product
Imul(a, b) ==
    LET ll == Mul16(a[2], b[2])
        hl == Mul16(a[1], b[2])
        lh == Mul16(a[2], b[1])
    IN  <<(ll[1] + hl[2] + lh[2]) % H, ll[2]>>

\* variant of ToWord: the value as it is
ToWordUntruncated(s) == s

\* ToInt32 / ToUint32 of the untruncated closure variable: its low 32 bits
ToWord(s) == <<s[1] % H, s[2]>>

(***************************************************************************)
(* mulberry32 (NeuralNet.tsx 12-19)                                        *)
(***************************************************************************)
IncHi == 27947      \* 0x6d2b
IncLo == 31221      \* 0x79f5

\* seed += 0x6d2b79f5, a double addition: no truncation
SeedStep(s) ==
    LET lo == s[2] + IncLo
    IN  <<s[1] + IncHi + (lo \div H), lo % H>>

\* the closure variable holding an integer seed n >= 0
SeedOf(n) == <<n \div H, n % H>>

\* the unsigned word u such that the call returns u / 4294967296, computed
\* from the closure variable after the increment
\* t = Math.imul(t ^ (t >>> 15), t | 1)
Mix1(t) == Imul(Xor32(t, Shr32(t, 15)), OrLow32(t, 1))

\* t ^= t + Math.imul(t ^ (t >>> 7), t | 61)
Mix2(t) == Xor32(Add32(t, Imul(Xor32(t, Shr32(t, 7)), OrLow32(t, 61))), t)

\* (t ^ (t >>> 14)) >>> 0
Mix3(t) == Xor32(t, Shr32(t, 14))

Mulberry32Out(s) == Mix3(Mix2(Mix1(ToWord(s))))

\* one call of the function returned by mulberry32: the new value of the
\* closure variable and the value returned
Mulberry32Call(s) ==
    LET s1 == SeedStep(s)
    IN  [out |-> Mulberry32Out(s1), seed |-> s1]

(***************************************************************************)
(* Fixed-point reals                                                       *)
(***************************************************************************)
ONE == 4096

\* a * b for two reals
FxMul(a, b) == (a * b) \div ONE

\* the largest r in lo..hi with r * r <= n, by bisection (lo * lo <= n)
RECURSIVE ISqrt(_, _, _)
ISqrt(n, lo, hi) ==
    IF lo >= hi THEN lo
    ELSE LET mid == (lo + hi + 1) \div 2
         IN  IF mid * mid <= n THEN ISqrt(n, mid, hi) ELSE ISqrt(n, lo, mid - 1)

\* Math.sqrt(v) for a real 0 <= v <= 4.0
FxSqrt(v) == ISqrt(v * ONE, 0, 2 * ONE)

\* tanh at k/4, k = 0..21, saturating at 1.0
TanhTable ==
    <<0, 1003, 1893, 2602, 3119, 3475, 3707, 3856, 3949, 4006, 4041,
      4063, 4076, 4084, 4089, 4091, 4093, 4094, 4095, 4095, 4096, 4096>>

\* exp at k/4, k = -32..32
ExpTable ==
    <<1, 2, 2, 3, 4, 5, 6, 8, 10, 13, 17, 21, 28, 35, 46, 58, 75, 96, 124,
      159, 204, 262, 336, 432, 554, 712, 914, 1174, 1507, 1935, 2484, 3190,
      4096, 5259, 6753, 8671, 11134, 14296, 18357, 23571, 30266, 38862,
      49899, 64072, 82270, 105637, 135641, 174166, 223634, 287152, 368710,
      473433, 607900, 780559, 1002258, 1286925, 1652444, 2121781, 2724420,
      3498225, 4491809, 5767597, 7405742, 9509161, 12210004>>

Quarter == ONE \div 4

\* table lookup with linear interpolation, for 0 <= x < (Len(tab) - 1) / 4
Interp(tab, x) ==
    LET k == x \div Quarter
        f == x % Quarter
    IN  tab[k + 1] + ((tab[k + 2] - tab[k + 1]) * f) \div Quarter

TanhPos(x) ==
    IF x >= (Len(TanhTable) - 1) * Quarter THEN ONE ELSE Interp(TanhTable, x)

\* Math.tanh
MathTanh(x) == IF x >= 0 THEN TanhPos(x) ELSE -TanhPos(-x)

\* Math.exp, the argument clamped to [-8, 8]
MathExp(x) ==
    LET lim == 8 * ONE
        c   == IF x < -lim THEN -lim ELSE IF x > lim THEN lim ELSE x
    IN  IF c = lim THEN ExpTable[Len(ExpTable)] ELSE Interp(ExpTable, c + lim)

\* A JS value that may be missing is a sequence: <<v>> for the value v, <<>>
\* for undefined, and for the NaN that arithmetic on undefined gives
Undefined == <<>>
NaN == <<>>

\* variant of Greater: a >= b
GreaterOrEqual(a, b) == a # NaN /\ b # NaN /\ a[1] >= b[1]

\* a > b on two such numbers: false when either side is NaN
Greater(a, b) == a # NaN /\ b # NaN /\ a[1] > b[1]

(***************************************************************************)
(* NeuralNet.tsx: numeric helpers                                          *)
(***************************************************************************)
tanh(x) == MathTanh(x)

\* a.reduce((s, v, i) => s + v * b[i], 0)
RECURSIVE dotFrom(_, _, _)
dotFrom(a, b, i) ==
    IF i > Len(a) THEN 0 ELSE FxMul(a[i], b[i]) + dotFrom(a, b, i + 1)

dot(a, b) == dotFrom(a, b, 1)

\* variant of matVecMul: the bias is left out
matVecMulNoBias(W, x, b) == [i \in 1..Len(W) |-> dot(W[i], x)]

\* W.map((row, i) => dot(row, x) + b[i])
matVecMul(W, x, b) == [i \in 1..Len(W) |-> dot(W[i], x) + b[i]]

\* x.map(tanh)
applyActivation(x) == [i \in 1..Len(x) |-> tanh(x[i])]

(***************************************************************************)
(* ActivationCanvas: memoised fullCounts, weights, allActivations          *)
(***************************************************************************)
\* Array.from({ length: n }, ...) makes max(n, 0) elements
ArrayLen(n) == IF n > 0 THEN n ELSE 0

\* [inputVector.length, ...layers]
FullCounts(ls, n) == <<n>> \o ls

\* variant of reduceSeed: each width weighted by its zero-based index
RECURSIVE reduceSeedZeroBased(_, _, _)
reduceSeedZeroBased(ls, i, s) ==
    IF i > Len(ls) THEN s
    ELSE reduceSeedZeroBased(ls, i + 1, s + (i - 1) * ls[i])

\* layers.reduce((s, v, i) => s + (i + 1) * v, inputVector.length * 131),
\* from the one-based position i on, with accumulator s
RECURSIVE reduceSeed(_, _, _)
reduceSeed(ls, i, s) ==
    IF i > Len(ls) THEN s ELSE reduceSeed(ls, i + 1, s + i * ls[i])

SeedBase == 131

SeedFor(ls, n) == reduceSeed(ls, 1, n * SeedBase)

\* rng() * 2 - 1
Unit(u) == ((u[1] - (H \div 2)) * ONE) \div (H \div 2)

\* Math.sqrt(1 / inN); not a number for inN <= 0 (never multiplied: such a
\* matrix has no entries)
ScaleFor(inN) == IF inN > 0 THEN FxSqrt(ONE \div inN) ELSE NaN

WeightEntry(u, scale) == FxMul(Unit(u), scale)

BiasEntry(u) == FxMul(Unit(u), ONE \div 10)

\* The closure variable of rng is threaded through the generation: every
\* step yields [val, seed], the value built and the closure variable after
\* the draws that built it.
Done(s) == [val |-> <<>>, seed |-> s]

\* the element x followed by the elements generated after it
Push(x, r) == [val |-> <<x>> \o r.val, seed |-> r.seed]

\* Array.from({ length: inN }, () => (rng() * 2 - 1) * scale): one call of
\* rng per entry, in index order
RECURSIVE GenRow(_, _, _)
GenRowDraw(c, inN, scale) ==
    Push(WeightEntry(c.out, scale), GenRow(c.seed, inN - 1, scale))

GenRow(s, inN, scale) ==
    IF inN <= 0 THEN Done(s) ELSE GenRowDraw(Mulberry32Call(s), inN, scale)

\* Array.from({ length: outN }, () => <row>): row after row
RECURSIVE GenMatrix(_, _, _, _)
GenMatrixRow(row, outN, inN, scale) ==
    Push(row.val, GenMatrix(row.seed, outN - 1, inN, scale))

GenMatrix(s, outN, inN, scale) ==
    IF outN <= 0 THEN Done(s)
    ELSE GenMatrixRow(GenRow(s, inN, scale), outN, inN, scale)

\* variant of GenBias: one entry more (i <= outN)
RECURSIVE GenBiasInclusive(_, _)
GenBiasInclusive(s, outN) ==
    IF outN < 0 THEN Done(s)
    ELSE LET c == Mulberry32Call(s)
         IN  Push(BiasEntry(c.out), GenBiasInclusive(c.seed, outN - 1))

\* Array.from({ length: outN }, () => (rng() * 2 - 1) * 0.1)
RECURSIVE GenBias(_, _)
GenBiasDraw(c, outN) == Push(BiasEntry(c.out), GenBias(c.seed, outN - 1))

GenBias(s, outN) ==
    IF outN <= 0 THEN Done(s) ELSE GenBiasDraw(Mulberry32Call(s), outN)

\* arr.push({ W, b })
LayerPair(Wval, b) == [val |-> [W |-> Wval, b |-> b.val], seed |-> b.seed]

\* const b = ..., drawn after W
GenLayerBias(W, outN) == LayerPair(W.val, GenBias(W.seed, outN))

\* variant of GenLayer: b is drawn before W
GenLayerBiasFirst(s, inN, outN) ==
    LET b == GenBias(s, outN)
        W == GenMatrix(b.seed, outN, inN, ScaleFor(inN))
    IN  [val |-> [W |-> W.val, b |-> b.val], seed |-> W.seed]

\* one iteration of the loop over l: W, then b
GenLayer(s, inN, outN) ==
    GenLayerBias(GenMatrix(s, outN, inN, ScaleFor(inN)), outN)

\* for (let l = 0; l < fullCounts.length - 1; l++) { ...; arr.push({ W, b }) }
RECURSIVE GenLoop(_, _, _)
GenLoopPush(lay, fc, l) == <<lay.val>> \o GenLoop(lay.seed, fc, l + 1)

GenLoop(s, fc, l) ==
    IF l > Len(fc) - 1 THEN <<>>
    ELSE GenLoopPush(GenLayer(s, fc[l], fc[l + 1]), fc, l)

\* the weights memo: const rng = mulberry32(seed); ...; return arr
GenWeights(fc, seed) == GenLoop(SeedOf(seed), fc, 1)

\* the allActivations memo: acts = [inputVector.slice()], then one push per
\* entry of weights
RECURSIVE ForwardLoop(_, _, _)
ForwardLoop(acts, ws, l) ==
    IF l > Len(ws) THEN acts
    ELSE LET z == matVecMul(ws[l].W, acts[l], ws[l].b)
             a == applyActivation(z)
         IN  ForwardLoop(Append(acts, a), ws, l + 1)

\* variant of AllActivations: the input vector is not part of the result
AllActivationsComputedOnly(iv, ws) == Tail(ForwardLoop(<<iv>>, ws, 1))

AllActivations(iv, ws) == ForwardLoop(<<iv>>, ws, 1)

\* an array as an object: `ref` tells one array from another, `elems` are the
\* elements it holds now
ArrayObject(ref, elems) == [ref |-> ref, elems |-> elems]

\* variant of Slice: the array itself
SliceAlias(a) == a

\* a.slice(): a new array holding the elements of a
Slice(a) == ArrayObject("slice", a.elems)

\* const output = allActivations[allActivations.length - 1]
Output(acts) == acts[Len(acts)]

(***************************************************************************)
(* Landing.tsx: the catalog, sigmoid, the wiring                           *)
(***************************************************************************)
\* TEAMS (colors are presentation only)
TEAMS ==
    << [name |-> "Pacers", id |-> 0],       [name |-> "OKC", id |-> 1],
       [name |-> "Rebels", id |-> 2],       [name |-> "UIC", id |-> 3],
       [name |-> "Sun", id |-> 4],          [name |-> "Sky", id |-> 5],
       [name |-> "Liberty", id |-> 6],      [name |-> "Illinois", id |-> 7],
       [name |-> "DePaul", id |-> 8],       [name |-> "Northwestern", id |-> 9],
       [name |-> "Storm", id |-> 10],       [name |-> "Mercury", id |-> 11],
       [name |-> "Titans", id |-> 12],      [name |-> "Wings", id |-> 13],
       [name |-> "Knicks", id |-> 14],      [name |-> "Bucks", id |-> 15] >>

\* the first NumTeams entries of the catalog are offered
NumTeams == 2

Teams == SubSeq(TEAMS, 1, NumTeams)

\* variant of LandingLayers: without the leading width
FourLayers == <<6, 3, 5, 2>>

\* layers={[1, 6, 3, 5, 2]}
LandingLayers == <<1, 6, 3, 5, 2>>

\* inputVector={[id1, id2]}: the identifiers as doubles
LandingInput(i1, i2) == <<i1 * ONE, i2 * ONE>>

\* vec[i] of a JS array (zero-based i): undefined past the end
At(vec, i) == IF i + 1 <= Len(vec) THEN <<vec[i + 1]>> ELSE Undefined

\* 1 / (1 + Math.exp(-x)); NaN for an argument that is not a number
sigmoid(x) ==
    IF x = Undefined THEN NaN
    ELSE <<(ONE * ONE) \div (ONE + MathExp(-x[1]))>>

\* variant of ResultIds: the ids of the current state
CurrentIds(env, cur) == cur

\* the ids the onResult closure compares: those of the Landing render that
\* created it (env), not those of the current state (cur)
ResultIds(env, cur) == <<env.id1, env.id2>>

\* variant of CapturedOutput: `output` of the current render
CurrentOutput(env, cur) == cur

\* the vector doneT hands to onResult: `output` of the render whose
\* onActivate scheduled it (env), not that of the current render (cur)
CapturedOutput(env, cur) == env.output

\* the body of onResult: the id handed to setWinnerID
Decide(vec, ida, idb) ==
    LET left  == sigmoid(At(vec, 0))
        right == sigmoid(At(vec, 1))
    IN  IF Greater(left, right) THEN ida ELSE idb

(***************************************************************************)
(* State                                                                   *)
(***************************************************************************)
VARIABLES
    teamAName, teamBName,   \* TeamPicker state
    pickerEffect,           \* TeamPicker's mount effect has yet to run
    id1, id2, winnerID,     \* Landing state
    layers, inputVector,    \* props of ActivationCanvas in the last render
    inputObject,            \* the array handed as inputVector, as it is now
    trace0,                 \* the array that is allActivations[0], as it is now
    seedUsed,               \* the seed handed to mulberry32 by the weights memo
    fullCounts, weights, allActivations,    \* the memos of ActivationCanvas
    animLayer, isAnimating, \* ActivationCanvas state
    timersRef,              \* timersRef.current: timer ids
    mounted,                \* ActivationCanvas is mounted
    pending,                \* the browser's pending timeouts, earliest first
    lastDone,               \* observer: the last completed activation
    remembered,             \* observer: one earlier completed activation
    thrown,                 \* observer: the error a render or a callback threw
    events,                 \* observer: what the timers did since the last
                            \* accepted click
    gens, outs,             \* generator harness: closure variables, values emitted
    decideIn, decideOut,    \* decision harness: arguments and result
    backendEndpoint,        \* NeuralNetworkEditor: the prop
    editorLayers, editorWeights,    \* NeuralNetworkEditor state: layers, weights
    inputText,              \* the entries of the input text, split at commas
    backendResponse, sending, activations, highlighted,
    editorEffect,           \* the editor's mount effect has yet to run
    inFlight,               \* handleSend calls suspended at their await
    flashes,                \* the highlight timeouts of each flashActivations
    lastEdit                \* observer: the last click on the editor

vars == <<teamAName, teamBName, pickerEffect, id1, id2, winnerID, layers,
          inputVector, inputObject, trace0, seedUsed, fullCounts, weights, allActivations,
          animLayer, isAnimating, timersRef, pending, lastDone, remembered,
          mounted, thrown, events, gens, outs, decideIn, decideOut,
          backendEndpoint, editorLayers, editorWeights, inputText,
          backendResponse, sending, activations, highlighted, editorEffect,
          inFlight, flashes, lastEdit>>

pickerVars == <<teamAName, teamBName, pickerEffect>>
landingVars == <<id1, id2, winnerID>>
propVars == <<layers, inputVector, inputObject>>
memoVars == <<seedUsed, fullCounts, weights, allActivations, trace0>>
animVars == <<animLayer, isAnimating, timersRef, pending>>
observerVars == <<lastDone, remembered, thrown, events>>
harnessVars == <<gens, outs, decideIn, decideOut>>
editorVars == <<backendEndpoint, editorLayers, editorWeights, inputText,
                backendResponse, sending, activations, highlighted,
                editorEffect, inFlight, flashes, lastEdit>>
appVars == <<pickerVars, landingVars, propVars, memoVars, animVars, mounted,
             observerVars, harnessVars>>

\* no value yet
None == <<>>

(***************************************************************************)
(* ActivationCanvas: render                                                *)
(***************************************************************************)
\* the weights memo for Landing's wiring, computed once
LandingWeights == GenWeights(FullCounts(LandingLayers, 2), SeedFor(LandingLayers, 2))

\* the weights memo: a function of the layer list and the input length only
WeightsMemo(ls, n) ==
    IF ls = LandingLayers /\ n = 2 THEN LandingWeights
    ELSE GenWeights(FullCounts(ls, n), SeedFor(ls, n))

\* variant of RenderCanvas: the first input takes part in the seed
RenderCanvasSeedFromInput(ls, iv) ==
    /\ layers' = ls
    /\ inputVector' = iv
    /\ inputObject' = ArrayObject("prop", iv)
    /\ seedUsed' = SeedFor(ls, Len(iv)) + (IF iv = <<>> THEN 0 ELSE iv[1] \div ONE)
    /\ fullCounts' = FullCounts(ls, Len(iv))
    /\ weights' = GenWeights(fullCounts', seedUsed')
    /\ allActivations' = AllActivations(iv, weights')
    /\ trace0' = Slice(inputObject')

\* a render of ActivationCanvas with props (ls, iv) whose memo dependencies
\* changed: fullCounts, weights and allActivations are computed anew, the
\* last from the weights just computed
RenderCanvas(ls, iv) ==
    /\ layers' = ls
    /\ inputVector' = iv
    /\ inputObject' = ArrayObject("prop", iv)
    /\ seedUsed' = SeedFor(ls, Len(iv))
    /\ fullCounts' = FullCounts(ls, Len(iv))
    /\ weights' = WeightsMemo(ls, Len(iv))
    /\ allActivations' = AllActivations(iv, weights')
    /\ trace0' = Slice(inputObject')

\* the first render of ActivationCanvas with props (ls, iv)
FirstRender(ls, iv) ==
    /\ layers = ls
    /\ inputVector = iv
    /\ inputObject = ArrayObject("prop", iv)
    /\ seedUsed = SeedFor(ls, Len(iv))
    /\ fullCounts = FullCounts(ls, Len(iv))
    /\ weights = WeightsMemo(ls, Len(iv))
    /\ allActivations = AllActivations(iv, weights)
    /\ trace0 = Slice(inputObject)
    /\ animLayer = -1
    /\ isAnimating = FALSE
    /\ timersRef = <<>>
    /\ pending = <<>>
    /\ mounted = TRUE

(***************************************************************************)
(* TeamPicker.tsx                                                          *)
(***************************************************************************)
\* teams.find((t) => t.name === name), for a state name
FindTeam(name) ==
    LET hits == {i \in 1..Len(Teams) : <<Teams[i].name>> = name}
    IN  IF hits = {} THEN Undefined
        ELSE <<Teams[CHOOSE i \in hits : \A j \in hits : i <= j]>>

\* teams.find((t) => t.name !== name)?.name
FirstOtherName(name) ==
    LET hits == {i \in 1..Len(Teams) : Teams[i].name # name}
    IN  IF hits = {} THEN Undefined
        ELSE <<Teams[CHOOSE i \in hits : \A j \in hits : i <= j].name>>

teamA == FindTeam(teamAName)
teamB == FindTeam(teamBName)

bothSelected == teamA # Undefined /\ teamB # Undefined
sameTeam == IF bothSelected THEN teamA[1].name = teamB[1].name ELSE FALSE

\* Landing passes no `disabled` prop
disabled == FALSE

canActivate == bothSelected /\ ~sameTeam /\ ~disabled

\* a re-render of Landing: new props reach ActivationCanvas
LandingRender(i1, i2) == RenderCanvas(LandingLayers, LandingInput(i1, i2))

\* the mount effect: default selections
PickerMountEffect ==
    /\ pickerEffect
    /\ pickerEffect' = FALSE
    /\ IF Len(Teams) = 0
       THEN UNCHANGED <<teamAName, teamBName>>
       ELSE /\ teamAName' = IF teamAName = Undefined THEN <<Teams[1].name>>
                            ELSE teamAName
            /\ teamBName' =
                 IF teamBName = Undefined
                 THEN FirstOtherName(IF teamAName = Undefined THEN Teams[1].name
                                     ELSE teamAName[1])
                 ELSE teamBName
    /\ UNCHANGED <<landingVars, propVars, memoVars, animVars, observerVars,
                   harnessVars, mounted,
                   editorVars>>

\* onChange of the Team A select; the item of Team B's name is disabled
SelectTeamA ==
    /\ ~disabled /\ Len(Teams) > 0
    /\ \E i \in 1..Len(Teams) :
         /\ <<Teams[i].name>> # teamBName
         /\ teamAName' = <<Teams[i].name>>
    /\ UNCHANGED <<teamBName, pickerEffect, landingVars, propVars, memoVars,
                   animVars, observerVars, harnessVars, mounted,
                   editorVars>>

\* onChange of the Team B select; the item of Team A's name is disabled
SelectTeamB ==
    /\ ~disabled /\ Len(Teams) > 0
    /\ \E i \in 1..Len(Teams) :
         /\ <<Teams[i].name>> # teamAName
         /\ teamBName' = <<Teams[i].name>>
    /\ UNCHANGED <<teamAName, pickerEffect, landingVars, propVars, memoVars,
                   animVars, observerVars, harnessVars, mounted,
                   editorVars>>

\* handleSwap; the button is disabled unless both teams are selected
handleSwap ==
    /\ ~disabled /\ bothSelected
    /\ teamAName' = teamBName
    /\ teamBName' = teamAName
    /\ UNCHANGED <<pickerEffect, landingVars, propVars, memoVars, animVars,
                   observerVars, harnessVars, mounted,
                   editorVars>>

\* variant of LandingOnActivate: both ids are taken from the first team
LandingOnActivateFirstTwice(a, b) == <<a.id, a.id>>

\* Landing's onActivate={(a, b) => { setID1(a.id); setID2(b.id); }}: the new
\* id1 and id2
LandingOnActivate(a, b) == <<a.id, b.id>>

\* onSubmit: onActivate(teamA, teamB) reaches Landing's handler, and Landing
\* renders again when a state changed
onSubmit ==
    /\ IF canActivate /\ teamA # Undefined /\ teamB # Undefined
       THEN /\ id1' = LandingOnActivate(teamA[1], teamB[1])[1]
            /\ id2' = LandingOnActivate(teamA[1], teamB[1])[2]
            /\ IF id1' # id1 \/ id2' # id2
               THEN LandingRender(id1', id2')
               ELSE UNCHANGED <<propVars, memoVars>>
       ELSE UNCHANGED <<id1, id2, propVars, memoVars>>
    /\ UNCHANGED <<pickerVars, winnerID, animVars, observerVars, harnessVars,
                   mounted,
                   editorVars>>

(***************************************************************************)
(* ActivationCanvas: onActivate and its timers                             *)
(***************************************************************************)
\* the ids window.setTimeout hands out: unused by any live timer
TimerIdsInUse ==
    {pending[i].id : i \in 1..Len(pending)} \cup {timersRef[i] : i \in 1..Len(timersRef)}

FreshTimerBase ==
    IF TimerIdsInUse = {} THEN 0
    ELSE CHOOSE m \in TimerIdsInUse : \A k \in TimerIdsInUse : k <= m

\* what the closures created by one call of onActivate see: `output` and
\* `onResult` of that render (onResult in turn sees Landing's id1 and id2);
\* input, layers and trace are the observer's note of that render
ClickEnv ==
    [output |-> Output(allActivations), id1 |-> id1, id2 |-> id2,
     input |-> inputVector, layers |-> layers, trace |-> allActivations]

\* variant of ScheduledTimers: the reveal of transition l sets l + 1
ScheduledTimersOffByOne(base, env) ==
    LET n == ArrayLen(Len(fullCounts) - 1)
    IN  [k \in 1..(n + 1) |->
           [id |-> base + k,
            kind |-> IF k <= n THEN "reveal" ELSE "done",
            l |-> k,
            env |-> env]]

\* variant of ScheduledTimers: doneT is not scheduled
ScheduledTimersNoDone(base, env) ==
    LET n == ArrayLen(Len(fullCounts) - 1)
    IN  [k \in 1..n |->
           [id |-> base + k, kind |-> "reveal", l |-> k - 1, env |-> env]]

\* the timeouts onActivate schedules, in order of delay: one per transition
\* (delay stepMs * (l + 1)), then doneT (delay stepMs * fullCounts.length)
ScheduledTimers(base, env) ==
    LET n == ArrayLen(Len(fullCounts) - 1)
    IN  [k \in 1..(n + 1) |->
           [id |-> base + k,
            kind |-> IF k <= n THEN "reveal" ELSE "done",
            l |-> k - 1,
            env |-> env]]

\* variant of onActivate: without the isAnimating guard
onActivateUnguarded ==
    /\ mounted
    /\ LET new == ScheduledTimers(FreshTimerBase, ClickEnv)
       IN  /\ isAnimating' = TRUE
           /\ animLayer' = -1
           /\ pending' = pending \o new
           /\ timersRef' = timersRef \o [k \in 1..Len(new) |-> new[k].id]
           /\ events' = <<>>
    /\ UNCHANGED <<pickerVars, landingVars, propVars, memoVars, lastDone,
                   remembered, thrown, harnessVars, mounted,
                   editorVars>>

\* a click on the Activate button
onActivate ==
    /\ mounted
    /\ IF isAnimating
       THEN UNCHANGED <<animVars, events>>
       ELSE LET new == ScheduledTimers(FreshTimerBase, ClickEnv)
            IN  /\ isAnimating' = TRUE
                /\ animLayer' = -1
                /\ pending' = pending \o new
                /\ timersRef' = timersRef \o [k \in 1..Len(new) |-> new[k].id]
                /\ events' = <<>>
    /\ UNCHANGED <<pickerVars, landingVars, propVars, memoVars, lastDone,
                   remembered, thrown, harnessVars, mounted,
                   editorVars>>

\* what the observer notes of a timer callback: setAnimLayer(l), or
\* onResult(vec) with the resets of doneT
RevealEvent(l) == [kind |-> "reveal", l |-> l, vec |-> None]
ResultEvent(vec) == [kind |-> "result", l |-> -1, vec |-> <<vec>>]

\* a reveal timeout fires: setAnimLayer(l)
RevealTimeout ==
    /\ pending # <<>>
    /\ Head(pending).kind = "reveal"
    /\ animLayer' = Head(pending).l
    /\ pending' = Tail(pending)
    /\ events' = Append(events, RevealEvent(Head(pending).l))
    /\ UNCHANGED <<isAnimating, timersRef, pickerVars, landingVars, propVars,
                   memoVars, lastDone, remembered, thrown, harnessVars,
                   mounted,
                   editorVars>>

\* variant of ClearTimeouts: nothing is cancelled
ClearNoTimeouts(ids, timeouts) == timeouts

\* ids.forEach((t) => window.clearTimeout(t)): the pending timeouts left
ClearTimeouts(ids, timeouts) ==
    LET cancelled(t) == \E i \in 1..Len(ids) : ids[i] = t.id
        kept(t) == ~cancelled(t)
    IN  SelectSeq(timeouts, kept)

\* ActivationCanvas is unmounted: the cleanup of the effect of line 127 runs
\* on the timersRef.current of that moment
Unmount ==
    /\ mounted
    /\ mounted' = FALSE
    /\ pending' = ClearTimeouts(timersRef, pending)
    /\ UNCHANGED <<animLayer, isAnimating, timersRef, pickerVars, landingVars,
                   propVars, memoVars, observerVars, harnessVars,
                   editorVars>>

\* what the observer notes of a completed activation: what its click saw,
\* what doneT delivered and compared, the winner set, and whether Landing's
\* pair changed between the click and the completion
Completed(env, vec, ids, w) ==
    [input |-> env.input, layers |-> env.layers, trace |-> env.trace,
     vec |-> vec, id1 |-> ids[1], id2 |-> ids[2], winner |-> w,
     changed |-> <<id1, id2>> # <<env.id1, env.id2>>]

\* doneT fires: setIsAnimating(false); setAnimLayer(-1); onResult(output);
\* timersRef.current = [].  onResult sets winnerID, and Landing renders again
\* when it changed
DoneTimeout ==
    /\ pending # <<>>
    /\ Head(pending).kind = "done"
    /\ LET env == Head(pending).env
           vec == CapturedOutput(env, Output(allActivations))
           ids == ResultIds(env, <<id1, id2>>)
           w   == Decide(vec, ids[1], ids[2])
       IN  /\ isAnimating' = FALSE
           /\ animLayer' = -1
           /\ winnerID' = w
           /\ timersRef' = <<>>
           /\ pending' = Tail(pending)
           /\ lastDone' = <<Completed(env, vec, ids, w)>>
           /\ events' = Append(events, ResultEvent(vec))
           /\ \/ remembered' = remembered
              \/ remembered' = lastDone'
           /\ IF w # winnerID
              THEN RenderCanvas(layers, inputVector)
              ELSE UNCHANGED <<propVars, memoVars>>
    /\ UNCHANGED <<pickerVars, id1, id2, thrown, harnessVars, mounted,
                   editorVars>>

(***************************************************************************)
(* Harness: generator instances created by mulberry32 and called in any    *)
(* order                                                                   *)
(***************************************************************************)
Instances == {1, 2}

\* seeds handed to mulberry32 by the harness
HarnessSeeds == {0, SeedFor(<<6, 3, 5, 2>>, 2), SeedFor(LandingLayers, 2)}

\* calls made on one instance
MaxDraws == 3

\* variant of StoreSeed: one variable shared by all instances
StoreSeedShared(gs, g, s) ==
    [h \in DOMAIN gs |->
       IF gs[h] = <<>> THEN <<>> ELSE <<[init |-> gs[h][1].init, seed |-> s]>>]

\* the closure variable `seed` belongs to the instance: a write by instance g
\* reaches the variable of g alone
StoreSeed(gs, g, s) == [gs EXCEPT ![g] = <<[init |-> @[1].init, seed |-> s]>>]

\* mulberry32(seed): a new instance
mulberry32 ==
    \E g \in Instances, n \in HarnessSeeds :
      /\ gens[g] = None
      /\ gens' = [gens EXCEPT ![g] = <<[init |-> n, seed |-> SeedOf(n)]>>]
      /\ UNCHANGED <<outs, decideIn, decideOut, pickerVars, landingVars,
                     propVars, memoVars, animVars, observerVars, mounted,
                     editorVars>>

\* one call of an instance
rng ==
    \E g \in Instances :
      /\ gens[g] # None
      /\ Len(outs[g]) < MaxDraws
      /\ LET c == Mulberry32Call(gens[g][1].seed)
         IN  /\ gens' = StoreSeed(gens, g, c.seed)
             /\ outs' = [outs EXCEPT ![g] = Append(@, c.out)]
      /\ UNCHANGED <<decideIn, decideOut, pickerVars, landingVars, propVars,
                     memoVars, animVars, observerVars, mounted,
                     editorVars>>

(***************************************************************************)
(* Harness: Landing's onResult body applied to any vector                  *)
(***************************************************************************)
MaxScore == 4

\* scores in steps of 1/4 and in steps of the smallest fraction
DecideValues ==
    {k * Quarter : k \in -MaxScore..MaxScore} \cup (-MaxScore..MaxScore)

DecideVectors == [1..2 -> DecideValues]

decide ==
    \E v \in DecideVectors :
      /\ decideIn' = v
      /\ decideOut' = Decide(v, "A", "B")
      /\ UNCHANGED <<gens, outs, pickerVars, landingVars, propVars, memoVars,
                     animVars, observerVars, mounted,
                     editorVars>>

(***************************************************************************)
(* NeuralNetEdit.tsx: the topology                                         *)
(***************************************************************************)
\* Math.random() * 2 - 1: the model keeps two values, and one call of
\* initializeWeights fills its matrices with one of them
WeightDraws == {-1, 1}

\* Array.from({ length: fromCount }, () => Array.from({ length: toCount }, () => v))
FilledMatrix(fromCount, toCount, v) ==
    [i \in 1..ArrayLen(fromCount) |-> [j \in 1..ArrayLen(toCount) |-> v]]

\* variant of WeightsOfShape: rows and columns exchanged
WeightsOfShapeTransposed(ls, v) ==
    [li \in 1..ArrayLen(Len(ls) - 1) |-> FilledMatrix(ls[li + 1], ls[li], v)]

\* layers.slice(1).map((toCount, li) => matrix of layers[li] rows of toCount
\* entries)
WeightsOfShape(ls, v) ==
    [li \in 1..ArrayLen(Len(ls) - 1) |-> FilledMatrix(ls[li], ls[li + 1], v)]

initializeWeights(ls, r) == WeightsOfShape(ls, r)

zeroWeights(ls) == WeightsOfShape(ls, 0)

\* Math.round(n / 2) for an integer n: halves go up
RoundHalf(n) == (n + 1) \div 2

\* Math.max(a, b)
MathMax(a, b) == IF a >= b THEN a ELSE b

\* copy[i] ?? 3, for a zero-based i
OrThree(copy, i) == IF i >= 0 /\ i < Len(copy) THEN copy[i + 1] ELSE 3

\* copy.splice(start, 0, item), with a negative start counted from the end
SpliceInsert(copy, start, item) ==
    LET at == IF start < 0 THEN MathMax(Len(copy) + start, 0)
              ELSE IF start > Len(copy) THEN Len(copy) ELSE start
    IN  SubSeq(copy, 1, at) \o <<item>> \o SubSeq(copy, at + 1, Len(copy))

\* copy.splice(start, 1), for 0 <= start < copy.length
SpliceDelete(copy, start) ==
    SubSeq(copy, 1, start) \o SubSeq(copy, start + 2, Len(copy))

\* the size addLayer gives the layer it inserts
NewSize(copy) ==
    LET insertIdx == Len(copy) - 1
    IN  MathMax(1, RoundHalf(OrThree(copy, insertIdx - 1) + OrThree(copy, insertIdx)))

\* variant of AddLayerList: the new layer goes after the output layer
AddLayerListAtEnd(prev) == Append(prev, NewSize(prev))

\* the updater of addLayer: the new layer list
AddLayerList(prev) == SpliceInsert(prev, Len(prev) - 1, NewSize(prev))

\* the updater of removeLayer: the new layer list
RemoveLayerList(prev) ==
    IF Len(prev) <= 2 THEN prev ELSE SpliceDelete(prev, Len(prev) - 2)

\* the updaters of addNeuron and removeNeuron, for a zero-based layerIdx
AddNeuronList(prev, layerIdx) ==
    [prev EXCEPT ![layerIdx + 1] = @ + 1]

RemoveNeuronList(prev, layerIdx) ==
    IF prev[layerIdx + 1] <= 1 THEN prev
    ELSE [prev EXCEPT ![layerIdx + 1] = @ - 1]

\* the caps the model puts on the editor's clicks: on the length of the list
\* addLayer is clicked on, and on the size of a layer that addLayer inserts
\* or addNeuron is clicked on
MaxEditorLayers == 3
MaxNeurons == 2

sendVars == <<inputText, backendResponse, sending, highlighted, inFlight,
              flashes>>

\* what the observer notes of a click on the editor: the button, and for
\* Send whether the alert was shown
Edit(kind) == <<kind>>

\* the end of an updater that changed the list:
\* setWeights(initializeWeights(copy)); setActivations(null); return copy
Rebuilt(copy) ==
    /\ editorLayers' = copy
    /\ \E r \in WeightDraws : editorWeights' = initializeWeights(copy, r)
    /\ activations' = None

\* the mount effect: setWeights(initializeWeights(layers)); it runs before
\* any click is handled
EditorMountEffect ==
    /\ editorEffect
    /\ editorEffect' = FALSE
    /\ \E r \in WeightDraws : editorWeights' = initializeWeights(editorLayers, r)
    /\ UNCHANGED <<backendEndpoint, editorLayers, activations, lastEdit,
                   sendVars, appVars>>

addLayer ==
    /\ ~editorEffect
    /\ Len(editorLayers) < MaxEditorLayers
    /\ NewSize(editorLayers) <= MaxNeurons
    /\ Rebuilt(AddLayerList(editorLayers))
    /\ lastEdit' = Edit("addLayer")
    /\ UNCHANGED <<backendEndpoint, editorEffect, sendVars, appVars>>

\* variant of removeLayer: without the guard on the length
removeLayerUnguarded ==
    /\ ~editorEffect
    /\ editorLayers # <<>>
    /\ Rebuilt(SpliceDelete(editorLayers, MathMax(Len(editorLayers) - 2, 0)))
    /\ lastEdit' = Edit("removeLayer")
    /\ UNCHANGED <<backendEndpoint, editorEffect, sendVars, appVars>>

removeLayer ==
    /\ ~editorEffect
    /\ IF Len(editorLayers) <= 2
       THEN UNCHANGED <<editorLayers, editorWeights, activations>>
       ELSE Rebuilt(RemoveLayerList(editorLayers))
    /\ lastEdit' = Edit("removeLayer")
    /\ UNCHANGED <<backendEndpoint, editorEffect, sendVars, appVars>>

\* the buttons of layer idx exist for 0 <= idx < layers.length
addNeuron ==
    /\ ~editorEffect
    /\ \E idx \in 0..(Len(editorLayers) - 1) :
         /\ editorLayers[idx + 1] < MaxNeurons
         /\ Rebuilt(AddNeuronList(editorLayers, idx))
    /\ lastEdit' = Edit("addNeuron")
    /\ UNCHANGED <<backendEndpoint, editorEffect, sendVars, appVars>>

\* at size 1 or less the updater returns an equal copy and sets nothing else
removeNeuron ==
    /\ ~editorEffect
    /\ \E idx \in 0..(Len(editorLayers) - 1) :
         IF editorLayers[idx + 1] <= 1
         THEN UNCHANGED <<editorLayers, editorWeights, activations>>
         ELSE Rebuilt(RemoveNeuronList(editorLayers, idx))
    /\ lastEdit' = Edit("removeNeuron")
    /\ UNCHANGED <<backendEndpoint, editorEffect, sendVars, appVars>>

(***************************************************************************)
(* NeuralNetEdit.tsx: handleSend and flashActivations                      *)
(***************************************************************************)
\* parseFloat(s.trim()) on the entries the model types: a number when the
\* trimmed entry starts with one, NaN otherwise
ParseFloat(entry) ==
    CASE entry = "0"  -> <<0>>
      [] entry = " 1" -> <<1>>
      [] entry = "2x" -> <<2>>
      [] OTHER        -> NaN

\* inputText.split(',').map((s) => parseFloat(s.trim())).filter((n) => !Number.isNaN(n))
Parsed(text) ==
    LET numbers == [k \in 1..Len(text) |-> ParseFloat(text[k])]
        isNumber(v) == v # NaN
        kept == SelectSeq(numbers, isNumber)
    IN  [k \in 1..Len(kept) |-> kept[k][1]]

\* variant of LengthMatches: nothing is rejected
LengthMatchesAlways == TRUE

\* parsed.length === layers[0]; layers[0] is undefined for an empty list
LengthMatches ==
    editorLayers # <<>> /\ Len(Parsed(inputText)) = editorLayers[1]

\* Math.random(): the model keeps two values, and one call of handleSend
\* fills its vectors with one of them
UnitDraws == {0, 1}

\* layers.map((cnt) => Array.from({ length: cnt }, () => Math.random()))
Simulated(ls, u) == [li \in 1..Len(ls) |-> [ni \in 1..ArrayLen(ls[li]) |-> u]]

\* data = { activations: simulated, output: simulated[simulated.length - 1] }
SimulatedData(ls, u) ==
    [activations |-> <<Simulated(ls, u)>>,
     output |-> IF ls = <<>> THEN Undefined ELSE <<Simulated(ls, u)[Len(ls)]>>]

\* what a backend may answer: a body without activations, or with
\* activations of a shape of its own
BackendData ==
    {[activations |-> None, output |-> <<<<1>>>>],
     [activations |-> <<<< <<1>> >>>>, output |-> <<<<1>>>>]}

\* the timeouts of one flashActivations(acts), in the order they are due:
\* layer li is added at li * 300 and deleted 400 later
FlashSteps(acts) ==
    LET n == Len(acts)
        step(op, li) == [op |-> op, li |-> li, count |-> Len(acts[li + 1])]
    IN  [p \in 1..(2 * n) |->
           IF p = 1 THEN step("add", 0)
           ELSE IF p = 2 * n THEN step("delete", n - 1)
           ELSE IF p % 2 = 0 THEN step("add", p \div 2)
           ELSE step("delete", (p - 3) \div 2)]

\* the keys `${li}-${ni}` of a layer
Keys(li, count) == {<<li, ni>> : ni \in 0..(count - 1)}

\* flashActivations(acts): setActivations(acts) and the timeouts
flashActivations(acts) ==
    /\ activations' = <<acts>>
    /\ flashes' = IF acts = <<>> THEN flashes ELSE Append(flashes, FlashSteps(acts))

\* the cap the model puts on the flashes under way when a send is accepted
MaxFlashes == 1

\* the texts the model types: entries that parse and entries that do not,
\* with 1, 1 and 2 numeric entries
InputTexts == {<<" 1">>, <<"x", " 1">>, <<" 1", "x", "2x">>}

\* onChange of the text field
setInputText ==
    /\ ~editorEffect
    /\ \E text \in InputTexts : inputText' = text
    /\ UNCHANGED <<backendEndpoint, editorLayers, editorWeights, backendResponse,
                   sending, activations, highlighted, editorEffect, inFlight,
                   flashes, lastEdit, appVars>>

\* a click on Send or Test Anim (both disabled while sending), up to the
\* await; a rejected click shows the alert and sets nothing
handleSend ==
    /\ ~editorEffect
    /\ ~sending
    /\ IF ~LengthMatches
       THEN /\ lastEdit' = Edit("sendRejected")
            /\ UNCHANGED <<sending, inFlight>>
       ELSE /\ Len(flashes) < MaxFlashes
            /\ lastEdit' = Edit("sendAccepted")
            /\ sending' = TRUE
            /\ IF backendEndpoint = "__test__"
               THEN \E u \in UnitDraws :
                      inFlight' = Append(inFlight, <<SimulatedData(editorLayers, u)>>)
               ELSE inFlight' = Append(inFlight, None)
    /\ UNCHANGED <<backendEndpoint, editorLayers, editorWeights, inputText,
                   backendResponse, activations, highlighted, editorEffect,
                   flashes, appVars>>

\* the rest of handleSend once the awaited promise has settled with data:
\* setBackendResponse(data); flashActivations(data.activations) when there
\* are any; finally setSending(false)
Continue(data) ==
    /\ backendResponse' = <<data>>
    /\ IF data.activations # None
       THEN flashActivations(data.activations[1])
       ELSE UNCHANGED <<activations, flashes>>

\* the 300 ms of the simulation are over
SimulationDone ==
    /\ inFlight # <<>>
    /\ Head(inFlight) # None
    /\ Continue(Head(inFlight)[1])
    /\ sending' = FALSE
    /\ inFlight' = Tail(inFlight)
    /\ UNCHANGED <<backendEndpoint, editorLayers, editorWeights, inputText,
                   highlighted, editorEffect, lastEdit, appVars>>

\* fetch and res.json() have settled: with a body, or with a rejection that
\* leaves only the finally block
FetchSettles ==
    /\ inFlight # <<>>
    /\ Head(inFlight) = None
    /\ \/ \E data \in BackendData : Continue(data)
       \/ UNCHANGED <<backendResponse, activations, flashes>>
    /\ sending' = FALSE
    /\ inFlight' = Tail(inFlight)
    /\ UNCHANGED <<backendEndpoint, editorLayers, editorWeights, inputText,
                   highlighted, editorEffect, lastEdit, appVars>>

\* a sequence without its empty entries
NonEmpty(seqs) ==
    LET some(q) == q # <<>>
    IN  SelectSeq(seqs, some)

\* the next timeout of a flash runs: the keys of its layer are added to or
\* deleted from highlighted.  Timeouts of one flash run in the order they are
\* due; those of different flashes in any order
HighlightTimeout ==
    /\ \E f \in 1..Len(flashes) :
         LET t == Head(flashes[f])
         IN  /\ highlighted' = IF t.op = "add"
                                THEN highlighted \cup Keys(t.li, t.count)
                                ELSE highlighted \ Keys(t.li, t.count)
             /\ flashes' = NonEmpty([flashes EXCEPT ![f] = Tail(@)])
    /\ UNCHANGED <<backendEndpoint, editorLayers, editorWeights, inputText,
                   backendResponse, sending, activations, editorEffect,
                   inFlight, lastEdit, appVars>>

(***************************************************************************)
(* Specifications                                                          *)
(***************************************************************************)
\* NeuralNetworkEditor is not rendered
EditorAbsent ==
    /\ backendEndpoint = "__test__"
    /\ editorLayers = <<>>
    /\ editorWeights = <<>>
    /\ inputText = <<>>
    /\ backendResponse = None
    /\ sending = FALSE
    /\ activations = None
    /\ highlighted = {}
    /\ editorEffect = FALSE
    /\ inFlight = <<>>
    /\ flashes = <<>>
    /\ lastEdit = None

HarnessIdle ==
    /\ gens = [g \in Instances |-> None]
    /\ outs = [g \in Instances |-> <<>>]
    /\ decideIn = None
    /\ decideOut = "none"

\* no render and no callback has a throw statement, and none of their
\* expressions throws: `thrown` is never written
ObserverInit ==
    lastDone = None /\ remembered = None /\ thrown = None /\ events = <<>>

\* Landing as mounted: id1 = 0, id2 = 1, winnerID = 0; TeamPicker before its
\* mount effect
Init ==
    /\ teamAName = Undefined
    /\ teamBName = Undefined
    /\ pickerEffect = TRUE
    /\ id1 = 0 /\ id2 = 1 /\ winnerID = 0
    /\ FirstRender(LandingLayers, LandingInput(0, 1))
    /\ ObserverInit
    /\ HarnessIdle
    /\ EditorAbsent

Next ==
    \/ PickerMountEffect
    \/ SelectTeamA
    \/ SelectTeamB
    \/ handleSwap
    \/ onSubmit
    \/ onActivate
    \/ RevealTimeout
    \/ DoneTimeout

Spec == Init /\ [][Next]_vars

\* ActivationCanvas under Landing's onResult, with any props
MaxLayers == 2
MaxWidth == 1
MaxInputs == 2
MaxInputHalves == 0

Lists(S, n) == UNION {[1..k -> S] : k \in 0..n}

LayerLists == Lists(0..MaxWidth, MaxLayers) \cup {<<6, 3, 5, 2>>, LandingLayers}

InputVectors == Lists({v * (ONE \div 2) : v \in -1..MaxInputHalves}, MaxInputs)

InitCanvas ==
    /\ teamAName = Undefined
    /\ teamBName = Undefined
    /\ pickerEffect = FALSE
    /\ id1 = 0 /\ id2 = 1 /\ winnerID = 0
    /\ \E ls \in LayerLists, iv \in InputVectors : FirstRender(ls, iv)
    /\ ObserverInit
    /\ HarnessIdle
    /\ EditorAbsent

NextCanvas ==
    \/ onActivate
    \/ RevealTimeout
    \/ DoneTimeout
    \/ Unmount

SpecCanvas == InitCanvas /\ [][NextCanvas]_vars

\* the earliest pending timeout runs, as seen on the timer queue: the steps
\* of SpecCanvas of this shape are those of RevealTimeout and DoneTimeout
TimeoutRuns ==
    /\ pending # <<>>
    /\ pending' = Tail(pending)
    /\ mounted' = mounted

\* the browser runs a timeout that is due: a pending timeout is not put off
\* forever
SpecCanvasLive == SpecCanvas /\ WF_<<pending, mounted>>(TimeoutRuns)

\* the harnesses alone; the application stays as mounted
InitHarness ==
    /\ teamAName = Undefined
    /\ teamBName = Undefined
    /\ pickerEffect = FALSE
    /\ id1 = 0 /\ id2 = 1 /\ winnerID = 0
    /\ FirstRender(<<>>, <<>>)
    /\ ObserverInit
    /\ HarnessIdle
    /\ EditorAbsent

NextRng == mulberry32 \/ rng

SpecRng == InitHarness /\ [][NextRng]_vars

NextDecide == decide

SpecDecide == InitHarness /\ [][NextDecide]_vars

\* NeuralNetworkEditor alone
MaxInitialLayers == 2

\* useState of the first render: layers is a copy of initialStructure.layers,
\* weights is initialStructure.weights when given (here: the empty list)
\* and zeroWeights(layers) otherwise, inputText is '0,0,0'
EditorMounted(initialLayers) ==
    /\ teamAName = Undefined
    /\ teamBName = Undefined
    /\ pickerEffect = FALSE
    /\ id1 = 0 /\ id2 = 1 /\ winnerID = 0
    /\ FirstRender(<<>>, <<>>)
    /\ ObserverInit
    /\ HarnessIdle
    /\ backendEndpoint \in {"__test__", "/api/infer"}
    /\ editorLayers \in initialLayers
    /\ editorWeights \in {zeroWeights(editorLayers), <<>>}
    /\ inputText = <<"0", "0", "0">>
    /\ backendResponse = None
    /\ sending = FALSE
    /\ activations = None
    /\ highlighted = {}
    /\ editorEffect = TRUE
    /\ inFlight = <<>>
    /\ flashes = <<>>
    /\ lastEdit = None

\* the topology buttons, on any initial structure: the short lists, and the
\* default of the component
EditorLayerLists == Lists(0..MaxNeurons, MaxInitialLayers) \cup {<<3, 4, 2>>}

InitTopology == EditorMounted(EditorLayerLists)

NextTopology ==
    \/ EditorMountEffect
    \/ addLayer
    \/ removeLayer
    \/ addNeuron
    \/ removeNeuron

SpecTopology == InitTopology /\ [][NextTopology]_vars

\* the whole editor, on the empty structure and on two layers of one neuron
SentLayerLists == {<<>>, <<1, 1>>}

InitEditor == EditorMounted(SentLayerLists)

NextEditor ==
    \/ EditorMountEffect
    \/ addLayer
    \/ removeLayer
    \/ addNeuron
    \/ removeNeuron
    \/ setInputText
    \/ handleSend
    \/ SimulationDone
    \/ FetchSettles
    \/ HighlightTimeout

SpecEditor == InitEditor /\ [][NextEditor]_vars

(***************************************************************************)
(* Properties                                                              *)
(***************************************************************************)
\* the sum of k * L[k] over the first k one-based positions of L
RECURSIVE WeightedSum(_, _)
WeightedSum(L, k) == IF k = 0 THEN 0 ELSE WeightedSum(L, k - 1) + k * L[k]

\* C1: the seed handed to the generator is n * 131 plus the sum over the
\* zero-based positions i of the layer list L of (i + 1) * L[i], n being the
\* length of the input vector; n = 2 and L = [6, 3, 5, 2] give 297
C1_SeedFormula ==
    /\ seedUsed = Len(inputVector) * 131 + WeightedSum(layers, Len(layers))
    /\ (Len(inputVector) = 2 /\ layers = <<6, 3, 5, 2>>) => seedUsed = 297

\* the weights memo ran for n = 2 and L = [6, 3, 5, 2]
C1_Witness ==
    /\ Len(inputVector) = 2
    /\ layers = <<6, 3, 5, 2>>
    /\ Len(weights) = 4
    /\ seedUsed = 297

\* C2: two completed activations started with the same pair (the same input
\* vector) and the same layer list have the same activation trace and set
\* the same winner, whatever was picked or activated before or meanwhile
C2_SameStartSameResult ==
    (/\ lastDone # None
     /\ remembered # None
     /\ lastDone[1].input = remembered[1].input
     /\ lastDone[1].layers = remembered[1].layers)
    => /\ lastDone[1].trace = remembered[1].trace
       /\ lastDone[1].winner = remembered[1].winner

\* two activations of the same pair completed, one with and one without a
\* new pick submitted while it ran
C2_Witness ==
    /\ lastDone # None
    /\ remembered # None
    /\ lastDone[1].input = remembered[1].input
    /\ lastDone[1].layers = remembered[1].layers
    /\ lastDone[1].changed # remembered[1].changed

\* C3: when an animation completes, the winner set is one of the two ids
\* that formed the input vector at the click; the ids compared are those of
\* that render, and the vector delivered is the final layer of the trace of
\* that input, also when new picks were submitted while the animation ran
C3_WinnerOfClickedPair ==
    lastDone # None =>
      LET d == lastDone[1]
      IN  /\ winnerID = d.winner
          /\ d.winner \in {d.input[1] \div ONE, d.input[2] \div ONE}
          /\ d.input = LandingInput(d.id1, d.id2)
          /\ d.trace[1] = d.input
          /\ d.vec = d.trace[Len(d.trace)]

\* an animation completed after a new pick was submitted while it ran
C3_Witness ==
    /\ lastDone # None
    /\ lastDone[1].changed
    /\ winnerID = lastDone[1].winner
    /\ LandingInput(id1, id2) # lastDone[1].input

\* C4: the decision returns the first candidate exactly when sigmoid(vec[0])
\* is strictly greater than sigmoid(vec[1]) and the second candidate in every
\* other case, a tie included: [1, -1] gives the first, [-1, 1] and [0, 0]
\* the second
C4_DecideBySigmoid ==
    decideIn # None =>
      /\ decideOut \in {"A", "B"}
      /\ decideOut = "A" <=>
           sigmoid(<<decideIn[1]>>)[1] > sigmoid(<<decideIn[2]>>)[1]
      /\ decideIn = <<ONE, -ONE>> => decideOut = "A"
      /\ decideIn \in {<<-ONE, ONE>>, <<0, 0>>} => decideOut = "B"

\* a decision on a tie of the two scores whose vector entries differ, the
\* first being the larger
C4_Witness ==
    /\ decideIn # None
    /\ decideIn[1] > decideIn[2]
    /\ sigmoid(<<decideIn[1]>>) = sigmoid(<<decideIn[2]>>)
    /\ decideOut = "B"

\* C5: for the full topology [n0, ..., nk] (input length, then the layer
\* list) the weights memo holds exactly k pairs (W, b); W of transition l has
\* n_{l+1} rows of exactly n_l entries each and b has exactly n_{l+1} entries
C5_WeightShapes ==
    /\ fullCounts = <<Len(inputVector)>> \o layers
    /\ Len(weights) = Len(fullCounts) - 1
    /\ \A l \in 1..Len(weights) :
         /\ Len(weights[l].W) = fullCounts[l + 1]
         /\ \A i \in 1..Len(weights[l].W) :
              Len(weights[l].W[i]) = fullCounts[l]
         /\ Len(weights[l].b) = fullCounts[l + 1]

\* weights generated for a topology whose widths all differ from their
\* neighbours
C5_Witness ==
    /\ fullCounts = <<2, 6, 3, 5, 2>>
    /\ Len(weights) = 4
    /\ Len(weights[2].W) = 3
    /\ Len(weights[2].W[1]) = 6
    /\ Len(weights[2].b) = 3

\* C6: the activation trace has one vector per layer of the full topology,
\* the input layer included; its first vector equals the input vector entry
\* by entry, and every later vector has the length the full topology gives
\* its layer
C6_TraceShape ==
    /\ Len(allActivations) = Len(fullCounts)
    /\ Len(allActivations) = Len(layers) + 1
    /\ allActivations[1] = inputVector
    /\ \A i \in 2..Len(allActivations) :
         Len(allActivations[i]) = fullCounts[i]

\* a trace of five layers of different widths computed from an input vector
\* with two different entries
C6_Witness ==
    /\ Len(inputVector) = 2
    /\ inputVector[1] # inputVector[2]
    /\ layers = <<6, 3, 5, 2>>
    /\ Len(allActivations) = 5
    /\ allActivations[1] = inputVector
    /\ Len(allActivations[2]) = 6
    /\ Len(allActivations[5]) = 2

\* the lengths of the vectors of a trace
Lengths(trace) == [i \in 1..Len(trace) |-> Len(trace[i])]

\* C7 as stated: as wired by Landing, the network evaluated has the full
\* topology [2, 6, 3, 5, 2] and seed 297, and its trace has five vectors of
\* lengths [2, 6, 3, 5, 2]
C7_AsStated ==
    /\ fullCounts = <<2, 6, 3, 5, 2>>
    /\ seedUsed = 297
    /\ Len(allActivations) = 5
    /\ Lengths(allActivations) = <<2, 6, 3, 5, 2>>

\* C7, amended: as wired by Landing (input [id1, id2], layer list
\* [1, 6, 3, 5, 2]) the network evaluated has the full topology
\* [2, 1, 6, 3, 5, 2] and seed 314, and its trace has six vectors of lengths
\* [2, 1, 6, 3, 5, 2]
C7_LandingNetwork ==
    /\ inputVector = LandingInput(id1, id2)
    /\ Len(inputVector) = 2
    /\ layers = <<1, 6, 3, 5, 2>>
    /\ fullCounts = <<2, 1, 6, 3, 5, 2>>
    /\ seedUsed = 314
    /\ Len(allActivations) = 6
    /\ Lengths(allActivations) = <<2, 1, 6, 3, 5, 2>>

\* the network evaluated for a pair other than the initial one, after an
\* activation completed
C7_Witness ==
    /\ inputVector = LandingInput(1, 0)
    /\ lastDone # None
    /\ Lengths(lastDone[1].trace) = <<2, 1, 6, 3, 5, 2>>
    /\ Lengths(allActivations) = <<2, 1, 6, 3, 5, 2>>

\* the sum over the first j positions of row[j] * x[j]
RECURSIVE SumProducts(_, _, _)
SumProducts(row, x, j) ==
    IF j = 0 THEN 0 ELSE SumProducts(row, x, j - 1) + (row[j] * x[j]) \div ONE

\* C8: for every transition l and row i, trace[l+1][i] is tanh of the sum
\* over j of W_l[i][j] * trace[l][j] plus b_l[i], on the last transition as
\* on the others; the vector handed to onResult is the final layer of the
\* trace as it is, no sigmoid applied to it
C8_ForwardPass ==
    /\ \A l \in 1..Len(weights) :
         \A i \in 1..Len(allActivations[l + 1]) :
           allActivations[l + 1][i] =
             MathTanh(SumProducts(weights[l].W[i], allActivations[l],
                                  Len(allActivations[l]))
                      + weights[l].b[i])
    /\ lastDone # None =>
         /\ lastDone[1].trace = allActivations
         /\ lastDone[1].vec = allActivations[Len(allActivations)]

\* an activation completed on a network of four transitions with a nonzero
\* input, and its final layer was handed over
C8_Witness ==
    /\ lastDone # None
    /\ Len(weights) = 4
    /\ Len(inputVector) = 2
    /\ inputVector[1] # 0
    /\ Len(lastDone[1].vec) = 2
    /\ lastDone[1].vec[1] # 0
    /\ lastDone[1].vec[1] # lastDone[1].vec[2]

\* the unsigned word of draw k (counted from 0) of the stream of a generator
\* created with seed n: the closure variable is n + (k + 1) * 0x6d2b79f5
Draw(n, k) ==
    LET lo == (n % H) + (k + 1) * IncLo
    IN  Mulberry32Out(<<(n \div H) + (k + 1) * IncHi + (lo \div H), lo % H>>)

\* the number of draws of the transitions before transition l (counted from
\* 1): the sum of outN * inN + outN over them
RECURSIVE Offset(_, _)
Offset(fc, l) ==
    IF l <= 1 THEN 0 ELSE Offset(fc, l - 1) + fc[l] * fc[l - 1] + fc[l]

\* C9: the draws are consumed in a fixed order.  With zero-based i and j, for
\* transition l with inN inputs and outN outputs, W_l[i][j] comes from draw
\* offset_l + i * inN + j and b_l[i] from draw offset_l + outN * inN + i,
\* offset_l being the number of draws of all earlier transitions; so no draw
\* is skipped or used twice and the draws of a transition precede those of
\* the next
C9_DrawOrder ==
    \A l \in 1..Len(weights) :
      LET inN  == fullCounts[l]
          outN == fullCounts[l + 1]
          off  == Offset(fullCounts, l)
      IN  /\ \A i \in 1..outN : \A j \in 1..inN :
               weights[l].W[i][j] =
                 WeightEntry(Draw(seedUsed, off + (i - 1) * inN + (j - 1)),
                             ScaleFor(inN))
          /\ \A i \in 1..outN :
               weights[l].b[i] =
                 BiasEntry(Draw(seedUsed, off + outN * inN + (i - 1)))

\* weights of four transitions: the first entry of the second matrix comes
\* from draw 18, after the 12 + 6 draws of the first transition, and the
\* first bias of the second transition from draw 36
C9_Witness ==
    /\ fullCounts = <<2, 6, 3, 5, 2>>
    /\ Len(weights) = 4
    /\ weights[2].W[1][1] = WeightEntry(Draw(seedUsed, 18), ScaleFor(6))
    /\ weights[2].b[1] = BiasEntry(Draw(seedUsed, 36))
    /\ weights[2].W[1][1] # weights[2].W[1][2]

\* a is an initial part of b
IsPrefix(a, b) == Len(a) <= Len(b) /\ SubSeq(b, 1, Len(a)) = a

\* C10: two generators created with the same seed emit the same sequence of
\* values, and the values an instance emits are those of the stream of its
\* own seed, whatever calls were made on other instances in between
C10_InstancePurity ==
    /\ \A g \in Instances : \A h \in Instances :
         (gens[g] # None /\ gens[h] # None /\ gens[g][1].init = gens[h][1].init)
         => (IsPrefix(outs[g], outs[h]) \/ IsPrefix(outs[h], outs[g]))
    /\ \A g \in Instances :
         gens[g] # None =>
           \A k \in 1..Len(outs[g]) : outs[g][k] = Draw(gens[g][1].init, k - 1)

\* two instances created with the same seed, each called at least twice
C10_Witness ==
    /\ gens[1] # None
    /\ gens[2] # None
    /\ gens[1][1].init = gens[2][1].init
    /\ Len(outs[1]) >= 2
    /\ Len(outs[2]) >= 2
    /\ outs[1][1] # outs[1][2]
    /\ outs[2][2] = outs[1][2]

\* C11: evaluation leaves the caller's input array alone: in every state,
\* after any renders and animations, the array handed as inputVector holds
\* the elements it was handed with, and trace[0] is another array holding the
\* same elements
C11_InputUntouched ==
    /\ inputObject.elems = inputVector
    /\ trace0.ref # inputObject.ref
    /\ trace0.elems = inputObject.elems
    /\ allActivations[1] = trace0.elems

\* an activation completed for one pair, and the trace was computed again for
\* another
C11_Witness ==
    /\ lastDone # None
    /\ lastDone[1].input # inputVector
    /\ inputObject.elems = LandingInput(id1, id2)
    /\ trace0.ref = "slice"

\* a full topology with fewer than 2 entries or with an entry <= 0
IsInvalidTopology(fc) == Len(fc) < 2 \/ \E i \in 1..Len(fc) : fc[i] <= 0

\* C12 as stated: whenever the full topology is invalid, weight generation has
\* failed with InvalidTopology and there are no parameters and no trace
\* beyond the input
C12_AsStated ==
    IsInvalidTopology(fullCounts) =>
        /\ thrown = <<"InvalidTopology">>
        /\ weights = None
        /\ Len(allActivations) <= 1

\* C13 as stated: a step in which doneT hands onResult a vector that does not
\* have exactly 2 elements fails with ShapeMismatch and sets no winner
C13_AsStated ==
    [][(/\ pending # <<>>
        /\ Head(pending).kind = "done"
        /\ pending' = Tail(pending)
        /\ Len(Head(pending).env.output) # 2)
       => (thrown' = <<"ShapeMismatch">> /\ winnerID' = winnerID)]_vars

\* the reveals of a network of L layers, in order
Reveals(L) == [k \in 1..(L - 1) |-> RevealEvent(k - 1)]

\* C14: during an animation the timers have revealed 0, 1, ... in order, one
\* transition each, and animLayer is the last one revealed; once the
\* animation is over the events since its click are exactly the reveals
\* 0..L-2 followed by one onResult with the final layer of the trace the
\* click saw, and animLayer is -1 again
C14_EventSequence ==
    LET L == Len(fullCounts)
    IN  IF isAnimating
        THEN /\ Len(events) <= L - 1
             /\ events = SubSeq(Reveals(L), 1, Len(events))
             /\ animLayer = Len(events) - 1
        ELSE /\ animLayer = -1
             /\ \/ events = <<>> /\ lastDone = None
                \/ /\ lastDone # None
                   /\ events = Append(Reveals(L),
                          ResultEvent(Output(lastDone[1].trace)))

\* an animation of a network with at least three transitions is over
C14_Witness ==
    /\ ~isAnimating
    /\ Len(fullCounts) >= 4
    /\ Len(events) = Len(fullCounts)
    /\ events[Len(events)].kind = "result"

\* the same construction with the state kept modulo 2^32: the state after k
\* increments from seed n, and the word emitted from it
RECURSIVE State32(_, _)
State32(n, k) ==
    IF k = 0 THEN <<(n \div H) % H, n % H>>
    ELSE Add32(State32(n, k - 1), <<IncHi, IncLo>>)

Out32(n, k) == Mix3(Mix2(Mix1(State32(n, k))))

\* an unsigned 32-bit integer, as two 16-bit halves
IsWord(u) == u[1] \in 0..(H - 1) /\ u[2] \in 0..(H - 1)

OfKind(seq, kind) == {i \in 1..Len(seq) : seq[i].kind = kind}

\* C16: clicks during an animation add nothing: in every state at most one
\* animation is in progress (all pending timers come from one click and end
\* with its single doneT), at most L timers are pending, timers are pending
\* exactly while the mounted component is animating, and onResult was called
\* at most once since the last accepted click
C16_OneAnimation ==
    /\ Len(pending) <= Len(fullCounts)
    /\ mounted => (isAnimating <=> pending # <<>>)
    /\ \A i \in 1..Len(pending) : pending[i].env = pending[1].env
    /\ OfKind(pending, "done") = (IF pending # <<>> THEN {Len(pending)} ELSE {})
    /\ Cardinality(OfKind(events, "result")) <= 1
    /\ isAnimating => OfKind(events, "result") = {}

\* a second animation is in progress with all its L >= 4 timers pending; a
\* click in this state is one that is ignored
C16_Witness ==
    /\ mounted
    /\ isAnimating
    /\ lastDone # None
    /\ Len(fullCounts) >= 4
    /\ Len(pending) = Len(fullCounts)
    /\ ENABLED onActivate

\* the animation is over and a click would start another
Idle ==
    /\ ~isAnimating
    /\ animLayer = -1
    /\ pending = <<>>
    /\ timersRef = <<>>

\* C17: with timers that fire, an animation of the mounted component leads to
\* the idle state (isAnimating false, animLayer -1, no timer pending or
\* remembered), in which a click is accepted, unless the component is
\* unmounted first
C17_Completes == (mounted /\ isAnimating) ~> (Idle \/ ~mounted)

\* an animation has completed and the next click was accepted
C17_Witness ==
    /\ mounted
    /\ lastDone # None
    /\ isAnimating
    /\ events = <<>>
    /\ Len(pending) = Len(fullCounts)

\* C18: no timer is pending once the component is unmounted, and no step
\* taken after the unmount reveals a transition, calls onResult or sets any
\* state
C18_UnmountCancels ==
    [][/\ ~mounted' => pending' = <<>>
       /\ ~mounted => UNCHANGED <<events, lastDone, winnerID, animLayer,
                                   isAnimating>>]_vars

\* unmounted in the middle of an animation: some transitions were revealed,
\* the others and doneT were still to come
C18_Witness ==
    /\ ~mounted
    /\ isAnimating
    /\ events # <<>>
    /\ Len(events) < Len(fullCounts) - 1
    /\ Len(timersRef) = Len(fullCounts)
    /\ pending = <<>>

\* C19: a step that keeps the layer list and the number of inputs keeps the
\* seed and every W and b, whatever it does to the selected identifiers; the
\* trace starts with the new input
C19_ParametersIgnorePicks ==
    [][(layers' = layers /\ Len(inputVector') = Len(inputVector))
       => /\ seedUsed' = seedUsed
          /\ weights' = weights
          /\ allActivations'[1] = LandingInput(id1', id2')]_vars

\* the picks were changed after an activation: the parameters are those of
\* the first render, the input and the final layer are not
C19_Witness ==
    /\ lastDone # None
    /\ lastDone[1].input # inputVector
    /\ allActivations[1] = inputVector
    /\ Output(lastDone[1].trace) # Output(allActivations)
    /\ seedUsed = SeedFor(LandingLayers, 2)
    /\ weights = LandingWeights

\* the name of the catalog team with the given id
NameOf(i) == TEAMS[CHOOSE k \in 1..Len(TEAMS) : TEAMS[k].id = i].name

\* C20: id1 and id2 change only in a step in which both selected names
\* resolve to teams, the names differ and the picker is not disabled, and
\* they become the ids of those two teams; after every step id1 and id2 are
\* the ids of two differently named teams, so id1 # id2
C20_PairOfDifferentTeams ==
    [][/\ <<id1', id2'>> # <<id1, id2>>
          => /\ bothSelected /\ ~sameTeam /\ ~disabled
             /\ id1' = teamA[1].id
             /\ id2' = teamB[1].id
       /\ id1' # id2'
       /\ NameOf(id1') # NameOf(id2')]_vars

\* the swapped pair was submitted
C20_Witness ==
    /\ canActivate
    /\ teamAName = <<Teams[2].name>>
    /\ teamBName = <<Teams[1].name>>
    /\ id1 = Teams[2].id
    /\ id2 = Teams[1].id


\* matrix l of weights has layers[l] rows of layers[l + 1] entries each
MatricesMatch ==
    \A l \in 1..Len(editorWeights) :
        /\ l < Len(editorLayers)
        /\ Len(editorWeights[l]) = editorLayers[l]
        /\ \A row \in 1..Len(editorWeights[l]) :
               Len(editorWeights[l][row]) = editorLayers[l + 1]

\* a step that changes layers leaves activations null
EditsClearActivations ==
    editorLayers' # editorLayers => activations' = None

\* C21 as stated: after the mount effect weights has layers.length - 1
\* matrices, matrix l has layers[l] rows of layers[l + 1] entries, and a step
\* that changes layers sets activations to null
C21_AsStated ==
    /\ [](~editorEffect =>
             /\ Len(editorWeights) = Len(editorLayers) - 1
             /\ MatricesMatch)
    /\ [][EditsClearActivations]_vars

\* C21: after the mount effect weights has layers.length - 1 matrices for a
\* non-empty layer list and none for an empty one, matrix l has layers[l]
\* rows of layers[l + 1] entries, and a step that changes layers sets
\* activations to null
C21_WeightsInSync ==
    /\ [](~editorEffect =>
             /\ Len(editorWeights) =
                    IF editorLayers = <<>> THEN 0 ELSE Len(editorLayers) - 1
             /\ MatricesMatch)
    /\ [][EditsClearActivations]_vars

\* a simulated send has set activations, and removeLayer has then set them to
\* null and left one matrix of weights between two layers
C21_Witness ==
    /\ backendEndpoint = "__test__"
    /\ backendResponse # None
    /\ activations = None
    /\ lastEdit = <<"removeLayer">>
    /\ Len(editorLayers) = 2
    /\ Len(editorWeights) = 1


\* at least 2 entries, all at least 1
IsNetwork(ls) == Len(ls) >= 2 /\ \A i \in 1..Len(ls) : ls[i] >= 1

\* C22: a step from a layer list of at least 2 entries that are all at least
\* 1 ends in such a list; removeLayer on 2 layers changes nothing, removeNeuron
\* changes no layer of size 1 and nothing at all when it leaves the list as
\* it was, and the layer addLayer inserts has size at least 1
C22_StaysNetwork ==
    [][IsNetwork(editorLayers) =>
          /\ IsNetwork(editorLayers')
          /\ (lastEdit' = <<"removeLayer">> /\ Len(editorLayers) = 2 =>
                  UNCHANGED <<editorLayers, editorWeights, activations>>)
          /\ (lastEdit' = <<"removeNeuron">> =>
                  /\ Len(editorLayers') = Len(editorLayers)
                  /\ \A i \in 1..Len(editorLayers) :
                         editorLayers[i] = 1 => editorLayers'[i] = 1
                  /\ (editorLayers' = editorLayers =>
                          UNCHANGED <<editorWeights, activations>>))
          /\ (Len(editorLayers') = Len(editorLayers) + 1 =>
                  editorLayers'[Len(editorLayers)] >= 1)]_vars

\* removeNeuron was clicked last, and the list is two layers of one neuron
C22_Witness ==
    /\ ~editorEffect
    /\ lastEdit = <<"removeNeuron">>
    /\ editorLayers = <<1, 1>>


\* ls with one entry put in immediately before its last entry
InsertedBeforeOutput(ls, after) ==
    /\ Len(ls) >= 1
    /\ Len(after) = Len(ls) + 1
    /\ SubSeq(after, 1, Len(ls) - 1) = SubSeq(ls, 1, Len(ls) - 1)
    /\ after[Len(after)] = ls[Len(ls)]
    /\ after[1] = ls[1]

\* what C23 says of a step: addLayer puts one entry in immediately before
\* the output layer and keeps layers[0], the last entry and the rest, and
\* removeLayer would take it out again; removeLayer on more than 2 layers
\* takes out the entry before the output layer and keeps the rest
OnlyBeforeOutput ==
    /\ (lastEdit' = <<"addLayer">> /\ Len(editorLayers') = Len(editorLayers) + 1 =>
            /\ InsertedBeforeOutput(editorLayers, editorLayers')
            /\ RemoveLayerList(editorLayers') = editorLayers)
    /\ (lastEdit' = <<"removeLayer">> /\ Len(editorLayers) > 2 =>
            InsertedBeforeOutput(editorLayers', editorLayers))

\* C23 as stated: every step of addLayer and of removeLayer is as OnlyBeforeOutput says
C23_AsStated == [][OnlyBeforeOutput]_vars

\* C23: on a layer list of at least 2 entries, addLayer puts one entry in
\* immediately before the output layer, removeLayer (on more than 2) takes
\* out the entry there, layers[0], the last entry and all other entries keep
\* their values and order, and removeLayer right after addLayer gives the
\* list before addLayer
C23_OnlyBeforeOutput == [][Len(editorLayers) >= 2 => OnlyBeforeOutput]_vars

\* addLayer was clicked last, on layers 2 and 1
C23_Witness ==
    /\ lastEdit = <<"addLayer">>
    /\ editorLayers = <<2, 2, 1>>


\* the count of numeric entries of the text differs from layers[0]
CountDiffers ==
    editorLayers = <<>> \/ Len(Parsed(inputText)) # editorLayers[1]

\* a step of handleSend: the observer notes a click on Send, or sending is
\* set
IsSend ==
    \/ lastEdit' # lastEdit /\ lastEdit' \in {<<"sendRejected">>, <<"sendAccepted">>}
    \/ ~sending /\ sending'

\* C24: a step of handleSend on a text whose count of numeric entries
\* differs from layers[0] issues no request and leaves sending,
\* backendResponse, activations and highlighted as they were
C24_RejectedFirst ==
    [][IsSend /\ CountDiffers =>
          UNCHANGED <<inFlight, sending, backendResponse, activations,
                      highlighted>>]_vars

\* a click on Send was rejected while a response was shown, activations were
\* set and neurons were highlighted
C24_Witness ==
    /\ lastEdit = <<"sendRejected">>
    /\ backendResponse # None
    /\ activations # None
    /\ highlighted # {}
    /\ ~sending


\* one vector per layer of ls, each of the size of its layer
MatchesLayers(acts, ls) ==
    /\ Len(acts) = Len(ls)
    /\ \A li \in 1..Len(acts) : Len(acts[li]) = ls[li]

\* C25 as stated: with backendEndpoint '__test__', activations is null or
\* has one vector per current layer, each of that layer's current size
C25_AsStated ==
    backendEndpoint = "__test__" =>
        activations = None \/ MatchesLayers(activations[1], editorLayers)

=============================================================================
